---- MODULE Spec2Model ----
(***************************************************************************)
(* Model of compress_gif (src/main.py), the adaptive size-targeting search *)
(* of gif_automation, together with the callers' choice of paths.          *)
(*                                                                         *)
(* Sizes are small integers (bytes, scaled down); scale factors are kept   *)
(* in hundredths (1.0 = 100) so that the list filters compare as the code  *)
(* compares its float literals.  A file's contents are a record that names *)
(* where the bytes came from, so that "is a byte copy of" is equality.     *)
(***************************************************************************)
EXTENDS Integers, Sequences, FiniteSets, TLC

\* ------------------------------------------------------------------ bounds
MaxSize == 3          \* file sizes range over 0..MaxSize
MaxBudget == 2        \* short runs draw max_attempts from -1..MaxBudget

\* ------------------------------------------------- contents of files
NoFile == [src |-> "none", n |-> 0, size |-> 0]
InputBytes(sz) == [src |-> "input", n |-> 0, size |-> sz]
\* tempfile.NamedTemporaryFile(delete=False) leaves an empty file behind
EmptyTemp == [src |-> "empty", n |-> 0, size |-> 0]
CroppedBytes(sz) == [src |-> "crop", n |-> 0, size |-> sz]
SampledBytes(sz) == [src |-> "adjust", n |-> 0, size |-> sz]
\* what encode attempt number k wrote, sz bytes long
EncodedBytes(k, sz) == [src |-> "encode", n |-> k, size |-> sz]

\* os.path.getsize
getsize(f) == f.size

\* ------------------------------------------------- parameter space
lossy_values == <<0, 30, 60, 90, 120, 150, 200>>
ColorList == <<256, 192, 128, 96, 64, 32>>
ScaleList == <<100, 90, 80, 70, 60, 50, 40>>

\* lines 244, 248-249
ColorValuesUnfiltered(mc) == ColorList
ColorValues(mc) ==
    LET kept == SelectSeq(ColorList, LAMBDA c : c >= mc)
    IN  IF kept = <<>> THEN <<mc>> ELSE kept

ScaleValuesNoFallback(ms) == SelectSeq(ScaleList, LAMBDA s : s >= ms)
ScaleValues(ms) ==
    LET kept == SelectSeq(ScaleList, LAMBDA s : s >= ms)
    IN  IF kept = <<>> THEN <<ms>> ELSE kept

FirstPassScales(force, ms) == IF ~force THEN <<100>> ELSE ScaleValues(ms)
SecondPassScales(ms) == Tail(ScaleValues(ms))
SecondPassLossy == <<60, 120, 200>>

PassScales(p, force, ms) ==
    IF p = 1 THEN FirstPassScales(force, ms) ELSE SecondPassScales(ms)
PassLossy(p) == IF p = 1 THEN lossy_values ELSE SecondPassLossy

\* ------------------------------------------------- the run's inputs
MinColorsChoices == {150, 200, 300}
MinScaleChoices == {85, 100, 120}
\* a budget that outlasts the shortest first pass, so the second pass runs
LongBudget == Len(lossy_values) + MaxBudget

\* crop_pixels: None (<<>>), all zero, or some margin set; margins in pixels
NoCrop == <<>>
CropChoices == {NoCrop, <<0, 0, 0, 0>>, <<1, 0, 0, 2>>}
\* <<frame_sample_rate, duration_factor>>, both in tenths (1.0 = 10)
AdjustChoices == {<<10, 10>>, <<5, 10>>, <<10, 20>>}

\* line 202: crop_pixels and any(crop_pixels)
CropRequested(cp) == cp # NoCrop /\ \E i \in DOMAIN cp : cp[i] # 0
\* line 212: frame_sample_rate < 1.0 or duration_factor != 1.0
AdjustRequested(ad) == ad[1] < 10 \/ ad[2] # 10

\* short runs over the search parameters, called as the command line calls
\* compress_gif for one file with default preprocessing
ShortArgs ==
    [original_size : 1..MaxSize, target_size_bytes : 0..MaxSize,
     max_attempts : (-1)..MaxBudget,
     min_colors : MinColorsChoices, min_scale : MinScaleChoices,
     force_scaling : BOOLEAN, crop_pixels : {NoCrop},
     adjust : {<<10, 10>>}, same_path : {FALSE},
     progress_callback : BOOLEAN]

\* short runs over the preprocessing options and the callers' paths
PreArgs ==
    [original_size : 1..MaxSize, target_size_bytes : 0..MaxSize,
     max_attempts : (-1)..MaxBudget,
     min_colors : {150}, min_scale : {100},
     force_scaling : {FALSE}, crop_pixels : CropChoices,
     adjust : AdjustChoices, same_path : BOOLEAN,
     progress_callback : {FALSE}]

LongArgs ==
    [original_size : 1..MaxSize, target_size_bytes : 0..MaxSize,
     max_attempts : {LongBudget},
     min_colors : {200}, min_scale : MinScaleChoices,
     force_scaling : BOOLEAN, crop_pixels : {NoCrop},
     adjust : {<<10, 10>>}, same_path : {FALSE},
     progress_callback : {TRUE}]

VARIABLES
    args,             \* the arguments of this call of compress_gif
    pc,               \* where the call is
    input_file,       \* contents of the file at input_path
    output_file,      \* contents of the file at output_path (NoFile: absent)
    temp_cropped,     \* contents of the crop step's temporary file
    temp_sampled,     \* contents of the frame step's temporary file
    temp_output,      \* contents of the attempts' temporary file
    best_files,       \* the live "best" temporary files: [name, data]
    processed_input,  \* "input", "cropped" or "sampled"
    use_gifsicle,
    best_size,
    best_output,      \* name of the held best file, 0 for None
    attempts,
    pos,              \* loop indices [s, l, c] into scales, lossy, colors
    result,           \* "none", "returned" or "raised"
    returned,         \* the pair compress_gif returned
    raised_by,        \* which call raised
    encodes,          \* history: encoder invocations made
    last,             \* history: the last attempt made
    min_seen,         \* history: least size measured, original included
    first_min,        \* history: temp_output after the earliest attempt that measured min_seen
    all_failed,       \* history: no encoder call produced output so far
    output_writes,    \* history: times the file at output_path was written
    temps_made,       \* history: temporary files created by the run
    accepts,          \* history: times the held best was replaced
    progress,         \* history: calls of progress_callback, and the last one
    pre_log,          \* history: preprocessing steps run, with the file each read
    call,             \* a direct call of _crop_gif or _adjust_frames
    first_fit         \* history: the first attempt whose output met the target

vars == <<args, pc, input_file, output_file, temp_cropped, temp_sampled,
          temp_output, best_files, processed_input, use_gifsicle, best_size,
          best_output, attempts, pos, result, returned, raised_by, encodes,
          last, min_seen, first_min, all_failed, output_writes, temps_made,
          accepts, progress, pre_log, call, first_fit>>

NoAttempt == [pass |-> 0, scale |-> 0, lossy |-> 0, colors |-> 0,
              ok |-> FALSE, size |-> 0, improved |-> FALSE, read |-> NoFile]

\* an animation file: its frames in order (each with the index it had in
\* the source, its pixel size and its duration), the canvas size, and
\* whether its bytes are the source's or those of a file saved anew
NoImage == [frames |-> <<>>, size |-> <<0, 0>>, bytes |-> "none"]
NoCall == [fn |-> "none", img |-> NoImage, crop_pixels |-> <<0, 0, 0, 0>>,
           sample_rate |-> 10, duration_factor |-> 10, out |-> NoImage]
NoProgress == [calls |-> 0, attempt |-> 0, size |-> 0]

RunNotStarted ==
    /\ input_file = InputBytes(args.original_size)
    /\ output_file = IF args.same_path THEN input_file ELSE NoFile
    /\ temp_cropped = NoFile
    /\ temp_sampled = NoFile
    /\ temp_output = NoFile
    /\ best_files = {}
    /\ processed_input = "input"
    /\ use_gifsicle = TRUE
    /\ best_size = args.original_size
    /\ best_output = 0
    /\ attempts = 0
    /\ pos = [s |-> 1, l |-> 1, c |-> 1]
    /\ result = "none"
    /\ returned = <<0, 0>>
    /\ raised_by = "none"
    /\ encodes = 0
    /\ last = NoAttempt
    /\ min_seen = args.original_size
    /\ first_min = NoFile
    /\ all_failed = TRUE
    /\ output_writes = 0
    /\ temps_made = 0
    /\ accepts = 0
    /\ progress = NoProgress
    /\ pre_log = <<>>
    /\ first_fit = 0

Init ==
    /\ args \in ShortArgs \cup PreArgs \cup LongArgs
    /\ pc = "start"
    /\ RunNotStarted
    /\ call = NoCall

\* ------------------------------------------------- helpers of the run
\* writing the file at output_path; with same_path it is the input file too
\* lines 195, 393, 397: shutil.copy(..., output_path)
CopyToOutputTwice(data) ==
    /\ output_file' = data
    /\ output_writes' = output_writes + 2
CopyToOutput(data) ==
    /\ output_file' = data
    /\ output_writes' = output_writes + 1

\* the file at input_path after data was written to output_path
InputAfterWrite(data) == IF args.same_path THEN data ELSE input_file

WriteOutput(data) ==
    /\ CopyToOutput(data)
    /\ input_file' = InputAfterWrite(data)

\* lines 207, 217, 402: if processed_input != input_path: os.unlink(...)
DeletesNever(pi) == FALSE
DeletesProcessed(pi) == pi # "input"

\* what the file called name holds after that guarded unlink
NotUnlinked(name, data) == data
Unlinked(name, data) ==
    IF DeletesProcessed(processed_input) /\ processed_input = name
    THEN NoFile ELSE data

\* the contents of the file processed_input names
OriginalData == input_file
ProcessedData ==
    IF processed_input = "input" THEN input_file
    ELSE IF processed_input = "cropped" THEN temp_cropped
    ELSE temp_sampled

\* lines 309-310 / 371-372: if best_output: os.unlink(best_output)
KeepPrevious(files, held) == files
ReleasePrevious(files, held) == {f \in files : f.name # held}

\* lines 307, 322: the callback is called inside the improvement branch
NotifiesEveryAttempt(improved, cb) == cb
Notifies(improved, cb) == improved /\ cb

Searching == pc \in {"pass1", "pass2"}

color_values == ColorValues(args.min_colors)
scale_values == ScaleValues(args.min_scale)
Scales(p) == PassScales(p, args.force_scaling, args.min_scale)

\* line 267 / 335: the budget test that guards every attempt
BudgetExhaustedOffByOne(a, m) == a > m
BudgetExhausted(a, m) == a >= m

\* line 307 / 369: the Tracker's acceptance test
ImprovesOrTies(current_size, best) == current_size <= best
Improves(current_size, best) == current_size < best

\* line 326 / 388
TargetMet(best, target) == best <= target

\* line 330: whether the second pass is entered once the first has ended
SecondPassUnlessForced(best, target, force) == ~force
SecondPassRuns(best, target, force) == best > target /\ ~force

\* where the driver is once pass p has run out of iterations
AfterPass(p, best) ==
    IF /\ p = 1
       /\ SecondPassRuns(best, args.target_size_bytes, args.force_scaling)
       /\ SecondPassScales(args.min_scale) # <<>>
    THEN [pc |-> "pass2", pos |-> [s |-> 1, l |-> 1, c |-> 1]]
    ELSE [pc |-> "cleanup", pos |-> [s |-> 1, l |-> 1, c |-> 1]]

\* the colors loop of (s, l) has ended (exhausted or left by break)
AfterInner(p, q, best) ==
    IF q.l < Len(PassLossy(p))
    THEN [pc |-> IF p = 1 THEN "pass1" ELSE "pass2",
          pos |-> [s |-> q.s, l |-> q.l + 1, c |-> 1]]
    ELSE IF q.s < Len(Scales(p))
    THEN [pc |-> IF p = 1 THEN "pass1" ELSE "pass2",
          pos |-> [s |-> q.s + 1, l |-> 1, c |-> 1]]
    ELSE AfterPass(p, best)

\* the next iteration of the colors loop
SameColor(p, q, best) ==
    [pc |-> IF p = 1 THEN "pass1" ELSE "pass2", pos |-> q]
NextColor(p, q, best) ==
    IF q.c < Len(color_values)
    THEN [pc |-> IF p = 1 THEN "pass1" ELSE "pass2",
          pos |-> [s |-> q.s, l |-> q.l, c |-> q.c + 1]]
    ELSE AfterInner(p, q, best)

PcOf(p) == IF p = 1 THEN "pass1" ELSE "pass2"

\* the data of the best file that best_output names
BestData == (CHOOSE f \in best_files : f.name = best_output).data

\* lines 392-397: what is copied to output_path
LastAttemptOnly(held, bestdata, temp) == temp
FinalArtifact(held, bestdata, temp) == IF held THEN bestdata ELSE temp

Raise(by) ==
    /\ pc' = "done"
    /\ result' = "raised"
    /\ raised_by' = by

\* ------------------------------------------------- the steps of compress_gif
\* lines 189-199: measure the input; copy it and return when it already fits
Enter ==
    /\ pc = "start"
    /\ IF args.original_size <= args.target_size_bytes
       THEN IF args.same_path
            THEN \* shutil.copy of a file onto itself raises SameFileError
                 /\ Raise("copy")
                 /\ UNCHANGED <<input_file, output_file, output_writes, returned>>
            ELSE /\ WriteOutput(input_file)
                 /\ pc' = "done"
                 /\ result' = "returned"
                 /\ returned' = <<args.original_size, args.original_size>>
                 /\ raised_by' = raised_by
       ELSE /\ pc' = "crop"
            /\ UNCHANGED <<input_file, output_file, output_writes, result,
                           returned, raised_by>>
    /\ processed_input' = "input"
    /\ UNCHANGED <<args, temp_cropped, temp_sampled, temp_output, best_files,
                   use_gifsicle, best_size, best_output, attempts, pos,
                   encodes, last, min_seen, first_min, all_failed,
                   temps_made, accepts, progress, pre_log, call,
                   first_fit>>

\* lines 201-209: the optional crop; _crop_gif may raise on an unreadable input
CropStep ==
    /\ pc = "crop"
    /\ IF CropRequested(args.crop_pixels)
       THEN \E ok \in BOOLEAN :
              /\ temps_made' = temps_made + 1
              /\ pre_log' = Append(pre_log,
                                   [step |-> "crop", read |-> ProcessedData])
              /\ IF ok
                 THEN /\ temp_cropped' = CroppedBytes(args.original_size)
                      /\ input_file' = Unlinked("input", input_file)
                      /\ processed_input' = "cropped"
                      /\ pc' = "adjust"
                      /\ UNCHANGED <<result, raised_by>>
                 ELSE /\ temp_cropped' = EmptyTemp
                      /\ Raise("crop")
                      /\ UNCHANGED <<processed_input, input_file>>
       ELSE /\ pc' = "adjust"
            /\ UNCHANGED <<temp_cropped, processed_input, result, raised_by,
                           temps_made, pre_log, input_file>>
    /\ UNCHANGED <<args, output_file, temp_sampled, temp_output,
                   best_files, use_gifsicle, best_size, best_output, attempts,
                   pos, returned, encodes, last, min_seen, first_min,
                   all_failed, output_writes, accepts, progress, call,
                   first_fit>>

\* lines 211-222: the optional frame sampling / duration step
AdjustStep ==
    /\ pc = "adjust"
    /\ IF AdjustRequested(args.adjust)
       THEN \E ok \in BOOLEAN :
              /\ temps_made' = temps_made + 1
              /\ pre_log' = Append(pre_log,
                                   [step |-> "adjust", read |-> ProcessedData])
              /\ IF ok
                 THEN /\ temp_sampled' = SampledBytes(args.original_size)
                      /\ temp_cropped' = Unlinked("cropped", temp_cropped)
                      /\ input_file' = Unlinked("input", input_file)
                      /\ processed_input' = "sampled"
                      /\ pc' = "probe"
                      /\ UNCHANGED <<result, raised_by>>
                 ELSE /\ temp_sampled' = EmptyTemp
                      /\ Raise("adjust")
                      /\ UNCHANGED <<temp_cropped, processed_input,
                                     input_file>>
       ELSE /\ pc' = "probe"
            /\ UNCHANGED <<temp_cropped, temp_sampled, processed_input,
                           result, raised_by, temps_made, pre_log,
                           input_file>>
    /\ UNCHANGED <<args, output_file, temp_output, best_files,
                   use_gifsicle, best_size, best_output, attempts, pos,
                   returned, encodes, last, min_seen, first_min, all_failed,
                   output_writes, accepts, progress, call,
                   first_fit>>

\* lines 224-260: probe for gifsicle, create temp_output, set up the search
Probe ==
    /\ pc = "probe"
    /\ use_gifsicle' \in BOOLEAN
    /\ temp_output' = EmptyTemp
    /\ temps_made' = temps_made + 1
    /\ best_size' = args.original_size
    /\ best_output' = 0
    /\ attempts' = 0
    /\ pos' = [s |-> 1, l |-> 1, c |-> 1]
    /\ pc' = "pass1"
    /\ UNCHANGED <<args, input_file, output_file, temp_cropped, temp_sampled,
                   best_files, processed_input, result, returned, raised_by,
                   encodes, last, min_seen, first_min, all_failed,
                   output_writes, accepts, progress, pre_log, call,
                   first_fit>>

\* lines 270-327 (pass 1) and 338-389 (pass 2): one iteration of the colors
\* loop that passes the budget test.  r is what the encoder does: r = 0 is a
\* failure (gifsicle exits non-zero and writes nothing, which subprocess.run
\* without check ignores; _compress_with_pillow raises), r > 0 is the size
\* of the file it writes to temp_output.
Attempt(p) ==
    /\ pc = PcOf(p)
    /\ ~BudgetExhausted(attempts, args.max_attempts)
    /\ \E r \in 0..MaxSize :
         LET k == attempts + 1
             setting == [NoAttempt EXCEPT !.pass = p,
                                          !.scale = Scales(p)[pos.s],
                                          !.lossy = PassLossy(p)[pos.l],
                                          !.colors = color_values[pos.c],
                                          !.read = ProcessedData]
             written == IF r = 0 THEN temp_output ELSE EncodedBytes(k, r)
             current_size == getsize(written)
             improved == Improves(current_size, best_size)
             new_best == IF improved THEN current_size ELSE best_size
             nxt == IF improved /\ TargetMet(new_best, args.target_size_bytes)
                    THEN AfterInner(p, pos, new_best)   \* break
                    ELSE NextColor(p, pos, new_best)
         IN  /\ attempts' = k
             /\ encodes' = encodes + 1
             /\ IF r = 0 /\ ~use_gifsicle
                THEN \* the exception leaves compress_gif
                     /\ Raise("encode")
                     /\ last' = [setting EXCEPT !.ok = FALSE, !.size = 0,
                                                !.improved = FALSE]
                     /\ UNCHANGED <<temp_output, best_size, best_output,
                                    best_files, pos, min_seen, first_min,
                                    all_failed, temps_made, accepts,
                                    progress, first_fit>>
                ELSE /\ temp_output' = written
                     /\ best_size' = new_best
                     /\ best_output' = IF improved THEN k ELSE best_output
                     /\ best_files' =
                           IF improved
                           THEN ReleasePrevious(best_files, best_output)
                                  \cup {[name |-> k, data |-> written]}
                           ELSE best_files
                     /\ first_fit' =
                           IF /\ first_fit = 0
                              /\ r # 0
                              /\ current_size <= args.target_size_bytes
                           THEN k ELSE first_fit
                     /\ pc' = nxt.pc
                     /\ pos' = nxt.pos
                     /\ last' = [setting EXCEPT !.ok = (r # 0),
                                                !.size = current_size,
                                                !.improved = improved]
                     /\ min_seen' = IF current_size < min_seen
                                    THEN current_size ELSE min_seen
                     /\ first_min' = IF current_size < min_seen
                                     THEN written ELSE first_min
                     /\ all_failed' = (all_failed /\ r = 0)
                     /\ temps_made' = temps_made + (IF improved THEN 1 ELSE 0)
                     /\ accepts' = accepts + (IF improved THEN 1 ELSE 0)
                     /\ progress' =
                           IF Notifies(improved, args.progress_callback)
                           THEN [calls |-> progress.calls + 1,
                                 attempt |-> k, size |-> new_best]
                           ELSE progress
                     /\ UNCHANGED <<result, raised_by>>
    /\ UNCHANGED <<args, input_file, output_file, temp_cropped, temp_sampled,
                   processed_input, use_gifsicle, returned, output_writes,
                   pre_log, call>>

\* lines 267-268 / 335-336: the budget test fails; the break leaves the colors
\* loop, and as attempts no longer changes every remaining iteration of the
\* outer loops breaks at once too, so the pass ends without another attempt
Exhausted(p) ==
    /\ pc = PcOf(p)
    /\ BudgetExhausted(attempts, args.max_attempts)
    /\ pc' = AfterPass(p, best_size).pc
    /\ pos' = AfterPass(p, best_size).pos
    /\ UNCHANGED <<args, input_file, output_file, temp_cropped, temp_sampled,
                   temp_output, best_files, processed_input, use_gifsicle,
                   best_size, best_output, attempts, result, returned,
                   raised_by, encodes, last, min_seen, first_min, all_failed,
                   output_writes, temps_made, accepts, progress, pre_log,
                   call,
                   first_fit>>

Pass1Attempt == Attempt(1)
Pass1Exhausted == Exhausted(1)
Pass2Attempt == Attempt(2)
Pass2Exhausted == Exhausted(2)

\* lines 391-406: copy the result to output_path, delete the temporary files
Cleanup ==
    /\ pc = "cleanup"
    /\ LET held == best_output # 0
           data == FinalArtifact(held, IF held THEN BestData ELSE NoFile,
                                 temp_output)
       IN  /\ WriteOutput(data)
           /\ best_files' = IF held
                             THEN {f \in best_files : f.name # best_output}
                             ELSE best_files
           /\ returned' = <<args.original_size, getsize(output_file')>>
    /\ temp_output' = NoFile
    /\ temp_cropped' = Unlinked("cropped", temp_cropped)
    /\ temp_sampled' = Unlinked("sampled", temp_sampled)
    /\ pc' = "done"
    /\ result' = "returned"
    /\ UNCHANGED <<args, processed_input, use_gifsicle, best_size,
                   best_output, attempts, pos, raised_by, encodes, last,
                   min_seen, first_min, all_failed, temps_made, accepts,
                   progress, pre_log, call,
                   first_fit>>

Next ==
    \/ Enter
    \/ CropStep
    \/ AdjustStep
    \/ Probe
    \/ Pass1Attempt
    \/ Pass1Exhausted
    \/ Pass2Attempt
    \/ Pass2Exhausted
    \/ Cleanup

Spec == Init /\ [][Next]_vars

TypeOK ==
    /\ pc \in {"start", "crop", "adjust", "probe", "pass1", "pass2",
                "cleanup", "done"}
    /\ result \in {"none", "returned", "raised"}
    /\ attempts \in 0..(LongBudget + 1)
    /\ best_size \in 0..MaxSize

\* ------------------------------------------------- searches beyond the lists
\* lines 263-265, 332-334: the number of iterations of the nested loops
SpaceOf(force, mc, ms) ==
    Len(FirstPassScales(force, ms)) * Len(lossy_values) * Len(ColorValues(mc))
      + (IF force THEN 0
         ELSE Len(SecondPassScales(ms)) * Len(SecondPassLossy)
                * Len(ColorValues(mc)))

\* a budget that no search of the runs below can spend
WideBudget == SpaceOf(TRUE, 200, 85) + MaxBudget

\* runs whose budget is negative, ends in the first pass, ends in the second
\* pass, or outlasts both passes, with a target that is hard to reach
WideArgs ==
    [original_size : {MaxSize}, target_size_bytes : {0, 1},
     max_attempts : {-1, 1, Len(lossy_values) + 1, WideBudget},
     min_colors : {200, 300}, min_scale : {85, 100},
     force_scaling : BOOLEAN, crop_pixels : {NoCrop}, adjust : {<<10, 10>>},
     same_path : {FALSE}, progress_callback : {FALSE}]

InitWide ==
    /\ args \in WideArgs
    /\ pc = "start"
    /\ RunNotStarted
    /\ call = NoCall

\* every step of compress_gif that can be taken is taken: the loops run on
\* and each encoder call returns or raises
SpecWide == InitWide /\ [][Next]_vars /\ WF_vars(Next)

\* ------------------------------------------------- the preprocessing functions
\* _crop_gif and _adjust_frames called on their own, on animations of up to
\* MaxFrames frames; rates and factors are in tenths
MaxFrames == 10
SampleRates == 1..10
DurationFactors == {10, 15}
Durations == {45, 100}
CanvasSizes == {<<2, 3>>, <<100, 20>>, <<100, 100>>}
Margins == {0, 1, 10} \X {0, 10} \X {0, 10, 90} \X {0, 2, 10}

SourceImage(n, size, d) ==
    [frames |-> [i \in 1..n |->
                   [index |-> i - 1, size |-> size, duration |-> d]],
     size |-> size, bytes |-> "source"]

\* frames[0].save(output_path, append_images=frames[1:], duration=...)
Saved(frames) == [frames |-> frames, size |-> frames[1].size, bytes |-> "saved"]

\* line 488: int(1/sample_rate)
SampleStepCeil(r) == (10 + r - 1) \div r
SampleStep(r) == 10 \div r

\* lines 486-489: whether frame i is skipped
Skipped(i, r) == r < 10 /\ i % SampleStep(r) # 0

\* line 499: int(orig_duration * duration_factor)
AdjustedDuration(d, f) == (d * f) \div 10

\* lines 478-521
adjust_frames(img, sample_rate, duration_factor) ==
    LET kept == SelectSeq(img.frames,
                          LAMBDA fr : ~Skipped(fr.index, sample_rate))
        frames == [i \in DOMAIN kept |->
                     [kept[i] EXCEPT !.duration =
                         AdjustedDuration(@, duration_factor)]]
    IN  IF frames # <<>> THEN Saved(frames) ELSE img

\* line 432: the guard against dimensions that are not positive
CropRefusedIfNegative(new_width, new_height) == new_width < 0 \/ new_height < 0
CropRefused(new_width, new_height) == new_width <= 0 \/ new_height <= 0

\* lines 418-465
crop_gif(img, crop_pixels) ==
    LET width == img.size[1]
        height == img.size[2]
        left == crop_pixels[1]
        top == crop_pixels[2]
        right == crop_pixels[3]
        bottom == crop_pixels[4]
        new_width == width - left - right
        new_height == height - top - bottom
        \* frame.crop((left, top, width - right, height - bottom))
        cropped == <<(width - right) - left, (height - bottom) - top>>
        frames == [i \in DOMAIN img.frames |->
                     [img.frames[i] EXCEPT !.size = cropped]]
    IN  IF CropRefused(new_width, new_height) THEN img
        ELSE IF frames # <<>> THEN Saved(frames)
        ELSE img

InitPre ==
    /\ args = [original_size |-> 1, target_size_bytes |-> 0,
               max_attempts |-> 0, min_colors |-> 150, min_scale |-> 100,
               force_scaling |-> FALSE, crop_pixels |-> NoCrop,
               adjust |-> <<10, 10>>, same_path |-> FALSE,
               progress_callback |-> FALSE]
    /\ pc = "idle"
    /\ RunNotStarted
    /\ \E n \in 1..MaxFrames, size \in CanvasSizes, d \in Durations,
          cp \in Margins, r \in SampleRates, f \in DurationFactors :
          call = [NoCall EXCEPT !.img = SourceImage(n, size, d),
                                !.crop_pixels = cp,
                                !.sample_rate = r,
                                !.duration_factor = f]

CallAdjustFrames ==
    /\ call.fn = "none"
    /\ call' = [call EXCEPT
                  !.fn = "adjust",
                  !.out = adjust_frames(call.img, call.sample_rate,
                                        call.duration_factor)]
    /\ UNCHANGED <<args, pc, input_file, output_file, temp_cropped,
                   temp_sampled, temp_output, best_files, processed_input,
                   use_gifsicle, best_size, best_output, attempts, pos,
                   result, returned, raised_by, encodes, last, min_seen,
                   first_min, all_failed, output_writes, temps_made, accepts,
                   progress, pre_log, first_fit>>

CallCropGif ==
    /\ call.fn = "none"
    /\ call' = [call EXCEPT !.fn = "crop",
                            !.out = crop_gif(call.img, call.crop_pixels)]
    /\ UNCHANGED <<args, pc, input_file, output_file, temp_cropped,
                   temp_sampled, temp_output, best_files, processed_input,
                   use_gifsicle, best_size, best_output, attempts, pos,
                   result, returned, raised_by, encodes, last, min_seen,
                   first_min, all_failed, output_writes, temps_made, accepts,
                   progress, pre_log, first_fit>>

NextPre ==
    \/ CallAdjustFrames
    \/ CallCropGif

SpecPre == InitPre /\ [][NextPre]_vars

\* ------------------------------------------------- properties
ShortCircuited == args.original_size <= args.target_size_bytes
NoTempAlive ==
    /\ temp_cropped = NoFile
    /\ temp_sampled = NoFile
    /\ temp_output = NoFile
    /\ best_files = {}

\* C1: when the input already fits the target, the run ends having made no
\* encode attempt, run no preprocessing step and created no temporary file,
\* with the output a byte copy of the input and (size, size) returned.
C1_ShortCircuit ==
    (pc = "done" /\ ShortCircuited) =>
        /\ attempts = 0 /\ encodes = 0
        /\ processed_input = "input"
        /\ temps_made = 0 /\ NoTempAlive
        /\ output_file = InputBytes(args.original_size)
        /\ result = "returned"
        /\ returned = <<args.original_size, args.original_size>>

\* C2: with max_attempts >= 0, neither the attempts counter nor the number
\* of encoder invocations ever exceeds max_attempts.
C2_BudgetRespected ==
    args.max_attempts >= 0 =>
        /\ attempts <= args.max_attempts
        /\ encodes <= args.max_attempts

\* C2 witness: a run that spent its whole budget across both passes
C2_Witness ==
    /\ pc = "cleanup"
    /\ last.pass = 2
    /\ attempts = args.max_attempts
    /\ encodes = args.max_attempts

\* C3: once an attempt's output has been recorded as the held best with
\* best_size <= target, no further encode attempt is made in the run.
C3_TargetTerminal ==
    [][(/\ Searching
        /\ best_output # 0 /\ ~all_failed
        /\ TargetMet(best_size, args.target_size_bytes))
          => attempts' = attempts]_vars

\* C4: best_size never grows, and the held best is replaced only by a
\* candidate strictly smaller than best_size, whose size best_size becomes;
\* a candidate of equal size leaves the held best in place.
C4_StrictImprovement ==
    [][/\ best_size' <= best_size
       /\ (best_output' # best_output \/ best_files' # best_files) /\ pc' # "done"
             => /\ last'.size < best_size
                /\ best_size' = last'.size
                /\ accepts' = accepts + 1
       /\ accepts' # accepts => best_size' < best_size]_vars

\* C4 witness: two replacements were made and then a candidate tied
C4_Witness ==
    /\ accepts = 2
    /\ last.ok /\ ~last.improved
    /\ last.size = best_size

\* C5: after every attempt best_size is the least of the original size and
\* the sizes measured so far; when an attempt beat the original, the held
\* best is a copy of what the earliest attempt measuring that least size
\* left in temp_output, and is best_size long; otherwise no best is held.
C5_BestSoFar ==
    (Searching \/ pc = "cleanup") =>
        /\ best_size = min_seen
        /\ min_seen < args.original_size =>
              /\ best_output # 0
              /\ BestData = first_min
              /\ getsize(BestData) = best_size
        /\ min_seen = args.original_size =>
              /\ best_output = 0
              /\ best_files = {}

\* C5 witness: a later attempt tied with the held best of an earlier one
C5_Witness ==
    /\ Searching
    /\ best_output # 0 /\ best_output < attempts
    /\ last.ok /\ last.size = best_size

\* C6: an attempt on which the external encoder fails without writing
\* output is counted, leaves best_size and the held best as they were, and
\* does not raise the target-met signal.
C6_FailureNoImprovement ==
    [][(use_gifsicle /\ attempts' = attempts + 1 /\ ~last'.ok)
          => /\ best_size' = best_size
             /\ best_output' = best_output
             /\ best_files' = best_files
             /\ encodes' = encodes + 1]_vars

\* C7: compress_gif never ends with the exception of a fallback encode call.
C7_FallbackContinues == ~(result = "raised" /\ raised_by = "encode")

\* C8: a run whose every encode attempt failed ends with a failure signal
\* and with the file at the output path never written.
C8_TotalFailureSurfaced ==
    (pc = "done" /\ attempts >= 1 /\ all_failed) =>
        /\ result = "raised"
        /\ output_writes = 0

\* C9: when the loops end with the budget spent and best_size > target, the
\* call returns normally; a held best is what the output file then holds and
\* its size is the returned final size; and whenever the call returns, the
\* returned final size is the size of the file at the output path.
C9_BudgetExhaustion ==
    [][/\ (/\ pc = "cleanup"
            /\ attempts >= args.max_attempts
            /\ best_size > args.target_size_bytes)
          => /\ result' = "returned"
             /\ best_output # 0 =>
                   /\ output_file' = BestData
                   /\ returned'[2] = best_size
       /\ (result' = "returned" /\ result = "none")
          => /\ returned'[1] = args.original_size
             /\ returned'[2] = getsize(output_file')]_vars

\* C9 witness: the budget ran out over target, and the output is the held
\* best of an attempt that was not the last one
C9_Witness ==
    /\ result = "returned"
    /\ attempts = args.max_attempts
    /\ best_size > args.target_size_bytes
    /\ best_output # 0 /\ best_output < attempts
    /\ output_file.src = "encode" /\ output_file.n = best_output
    /\ temp_output = NoFile

\* the floors over the whole documented range of min_colors and min_scale
FloorOfLists ==
    /\ \A mc \in 2..256 : \A i \in DOMAIN ColorValues(mc) :
          ColorValues(mc)[i] >= mc
    /\ \A ms \in 1..100 : \A f \in BOOLEAN :
          /\ \A i \in DOMAIN FirstPassScales(f, ms) :
                FirstPassScales(f, ms)[i] >= ms
          /\ \A i \in DOMAIN SecondPassScales(ms) :
                SecondPassScales(ms)[i] >= ms
    /\ SecondPassScales(100) = <<>>

\* C10: with min_colors in 2..256 and min_scale in (0, 1], every attempt of
\* either pass uses colors >= min_colors and scale >= min_scale, and with
\* min_scale = 1.0 no attempt is scaled and the second pass makes none.
C10_Floor ==
    /\ FloorOfLists
    /\ (args.min_colors \in 2..256 /\ args.min_scale \in 1..100 /\ last.pass # 0)
          => /\ last.colors >= args.min_colors
             /\ last.scale >= args.min_scale
             /\ args.min_scale = 100 => (last.scale = 100 /\ last.pass = 1)

\* C10 witness: a scaled second-pass attempt under a color floor that
\* removes levels from the list
C10_Witness ==
    /\ args.min_colors = 200
    /\ last.pass = 2
    /\ last.scale < 100 /\ last.scale >= args.min_scale
    /\ last.colors = 256

AttemptMade == attempts' = attempts + 1

\* C11: a second-pass attempt is made only from the second pass, which is
\* entered only from the first pass, only with best_size > target at its end
\* and only without force_scaling; without force_scaling no scaled attempt
\* belongs to the first pass; with force_scaling the second pass never runs.
C11_PassGating ==
    [][/\ (AttemptMade /\ last'.pass = 2)
            => (pc = "pass2" /\ ~args.force_scaling)
       /\ (pc # "pass2" /\ pc' = "pass2")
            => /\ pc = "pass1"
               /\ best_size' > args.target_size_bytes
               /\ ~args.force_scaling
       /\ (pc = "pass2" /\ pc' # "pass2") => pc' \in {"cleanup", "done"}
       /\ (AttemptMade /\ ~args.force_scaling /\ last'.scale < 100)
            => last'.pass = 2
       /\ args.force_scaling => pc' # "pass2"]_vars

\* C11 witness: the first pass ended over target with budget left, and a
\* second-pass attempt then improved on it
C11_Witness ==
    /\ ~args.force_scaling
    /\ last.pass = 2 /\ last.improved
    /\ attempts > Len(lossy_values)

Returned == result = "returned" /\ ~ShortCircuited

\* C12: a searching run with max_attempts >= 1 returns a final
\* size strictly below the original size.
C12_NeverEnlarges ==
    (Returned /\ args.max_attempts >= 1) => returned[2] < returned[1]

\* C13: the file at the output path is written at most once, only by the
\* short-circuit or by the final clean-up, and then with the whole of the
\* input, of the held best or of temp_output; no attempt writes it; a run
\* that ends with an exception has not written it.
C13_NoPartialOutput ==
    [][/\ (output_file' # output_file \/ output_writes' # output_writes)
            => /\ pc \in {"start", "cleanup"} /\ pc' = "done"
               /\ result' = "returned"
               /\ output_writes = 0 /\ output_writes' = 1
               /\ output_file' \in
                     IF pc = "start" THEN {input_file}
                     ELSE IF best_output # 0 THEN {BestData}
                     ELSE {temp_output}
       /\ result' = "raised" => output_writes' = 0
       /\ output_writes' <= 1]_vars

\* C13 witness: a search of several attempts ended and wrote its result
C13_Witness ==
    /\ result = "returned"
    /\ attempts >= 2
    /\ output_writes = 1
    /\ output_file.src = "encode"

\* C14: the file at the input path always holds the bytes it
\* held when the run began.
C14_InputNeverMutated == input_file = InputBytes(args.original_size)

\* C15: with a callback given, it is called exactly on the attempts that
\* replace the held best, once each, with the attempt's index and the new
\* best size; the indices passed increase and the sizes passed decrease
\* strictly; without one, nothing is called.
C15_ProgressObserver ==
    [][/\ progress' # progress
            => /\ args.progress_callback
               /\ AttemptMade /\ accepts' = accepts + 1
               /\ progress'.calls = progress.calls + 1
               /\ progress'.attempt = attempts'
               /\ progress'.attempt > progress.attempt
               /\ progress'.size = best_size'
               /\ progress'.size < best_size
               /\ progress.calls > 0 => progress'.size < progress.size
       /\ (accepts' # accepts /\ args.progress_callback)
            => progress'.calls = progress.calls + 1
       /\ progress'.calls = IF args.progress_callback THEN accepts' ELSE 0
      ]_vars

\* C15 witness: two calls were made, then an attempt without improvement
\* and the end of the run left the record of calls as it was
C15_Witness ==
    /\ result = "returned"
    /\ progress.calls = 2
    /\ ~last.improved
    /\ progress.attempt < attempts

Range(seq) == {seq[i] : i \in DOMAIN seq}
StrictlyDescending(seq) ==
    \A i \in DOMAIN seq : \A j \in DOMAIN seq : i < j => seq[i] > seq[j]

EnteredSearch ==
    \/ pc \in {"pass1", "pass2", "cleanup"}
    \/ Returned
    \/ raised_by = "encode"

Ran(step) == \E i \in DOMAIN pre_log : pre_log[i].step = step

\* C18: in a run that enters the search the crop ran iff some margin is
\* non-zero, the frame adjustment ran iff sample_rate < 1 or duration_factor
\* # 1, the crop ran first and read the input, the adjustment read the
\* crop's output when there was one, and every attempt read the output of
\* the last step that ran, or the input file when none did.
C18_PreprocessingOrder ==
    EnteredSearch =>
      /\ Ran("crop") <=> /\ Len(args.crop_pixels) = 4
                          /\ \E i \in 1..4 : args.crop_pixels[i] > 0
      /\ Ran("adjust") <=> (args.adjust[1] < 10 \/ args.adjust[2] # 10)
      /\ \A i \in DOMAIN pre_log : \A j \in DOMAIN pre_log :
            /\ (pre_log[i].step = pre_log[j].step) => i = j
            /\ (pre_log[i].step = "crop" /\ pre_log[j].step = "adjust")
                  => i < j
      /\ \A i \in DOMAIN pre_log :
            /\ pre_log[i].step = "crop"
                  => pre_log[i].read = InputBytes(args.original_size)
            /\ pre_log[i].step = "adjust"
                  => pre_log[i].read =
                        IF Ran("crop") THEN CroppedBytes(args.original_size)
                        ELSE InputBytes(args.original_size)
      /\ last.pass # 0 =>
            last.read = IF Ran("adjust")
                        THEN SampledBytes(args.original_size)
                        ELSE IF Ran("crop")
                        THEN CroppedBytes(args.original_size)
                        ELSE InputBytes(args.original_size)

\* C18 witness: both steps ran, the adjustment on the crop's output, and an
\* attempt of the search read the adjustment's output
C18_Witness ==
    /\ Len(pre_log) = 2
    /\ pre_log[2].read = CroppedBytes(args.original_size)
    /\ last.pass # 0 /\ attempts >= 2
    /\ last.read = SampledBytes(args.original_size)

\* the lists over a range of min_colors and min_scale that goes beyond the
\* literal lists at both ends
ListsAsSpecified ==
    /\ \A mc \in 1..300 :
          LET cv == ColorValues(mc)
              kept == {c \in {256, 192, 128, 96, 64, 32} : c >= mc}
          IN  /\ cv # <<>>
              /\ StrictlyDescending(cv)
              /\ Range(cv) = IF kept = {} THEN {mc} ELSE kept
    /\ \A ms \in 1..130 :
          LET sv == ScaleValues(ms)
              kept == {s \in {100, 90, 80, 70, 60, 50, 40} : s >= ms}
          IN  /\ sv # <<>>
              /\ StrictlyDescending(sv)
              /\ Range(sv) = IF kept = {} THEN {ms} ELSE kept
    /\ lossy_values = <<0, 30, 60, 90, 120, 150, 200>>

\* C19: for every min_colors and min_scale the color list is the literal
\* list restricted to values >= min_colors in its order, or the single
\* value min_colors when nothing is left, the scale list likewise, the
\* lossy list is the fixed one; all are non-empty and the color and scale
\* lists are strictly descending; the lists the run iterates over are these.
C19_ParameterSpace ==
    /\ ListsAsSpecified
    /\ last.pass # 0 =>
          /\ last.colors \in
                LET kept == {c \in {256, 192, 128, 96, 64, 32} :
                                c >= args.min_colors}
                IN  IF kept = {} THEN {args.min_colors} ELSE kept
          /\ (last.pass = 2 \/ args.force_scaling) =>
                last.scale \in
                  LET kept == {s \in {100, 90, 80, 70, 60, 50, 40} :
                                  s >= args.min_scale}
                  IN  IF kept = {} THEN {args.min_scale} ELSE kept
          /\ last.lossy \in {0, 30, 60, 90, 120, 150, 200}

\* C19 witness: both restrictions are empty and an attempt is made with the
\* two fallback values
C19_Witness ==
    /\ args.min_colors = 300 /\ args.min_scale = 120
    /\ args.force_scaling
    /\ last.pass = 1
    /\ last.colors = 300 /\ last.scale = 120

\* the place of an attempt in the order pass, scale (descending), lossy
\* (ascending), colors (descending)
Before(a, b) ==
    \/ a.pass < b.pass
    \/ a.pass = b.pass /\ a.scale > b.scale
    \/ a.pass = b.pass /\ a.scale = b.scale /\ a.lossy < b.lossy
    \/ a.pass = b.pass /\ a.scale = b.scale /\ a.lossy = b.lossy
          /\ a.colors > b.colors

\* C20: first-pass attempts use scale 1.0 only unless force_scaling, the
\* seven lossy levels and the color list; second-pass attempts use the
\* scale list without its first element, lossy 60, 120 or 200 and the color
\* list; each attempt comes strictly after the one before it in the order
\* scale descending, lossy ascending, colors descending (first pass before
\* second), so that no setting is attempted twice.
C20_AttemptOrdering ==
    [][AttemptMade =>
         /\ last'.pass \in {1, 2}
         /\ last'.colors \in Range(ColorValues(args.min_colors))
         /\ last'.pass = 1 =>
               /\ last'.lossy \in {0, 30, 60, 90, 120, 150, 200}
               /\ IF args.force_scaling
                  THEN last'.scale \in Range(ScaleValues(args.min_scale))
                  ELSE last'.scale = 100
         /\ last'.pass = 2 =>
               /\ last'.lossy \in {60, 120, 200}
               /\ last'.scale \in Range(Tail(ScaleValues(args.min_scale)))
         /\ last.pass # 0 =>
               /\ Before(last, last')
               /\ [pass |-> last.pass, scale |-> last.scale,
                   lossy |-> last.lossy, colors |-> last.colors]
                  # [pass |-> last'.pass, scale |-> last'.scale,
                     lossy |-> last'.lossy, colors |-> last'.colors]
      ]_vars

\* C20 witness: the search has gone through the colors and the lossy levels
\* of the first pass and reached the second lossy level of the second pass
C20_Witness ==
    /\ last.pass = 2
    /\ last.lossy = 120
    /\ attempts = LongBudget

KeptIndices == {call.out.frames[i].index : i \in DOMAIN call.out.frames}
SourceIndices == {call.img.frames[i].index : i \in DOMAIN call.img.frames}
InSourceOrder ==
    \A i \in DOMAIN call.out.frames : \A j \in DOMAIN call.out.frames :
        i < j => call.out.frames[i].index < call.out.frames[j].index

\* C16 as claimed: with 0 < sample_rate < 1 the frames kept are exactly
\* those whose index i has i mod ceil(1/sample_rate) = 0, in their order;
\* with sample_rate = 1 all are kept; frame 0 is always kept.
C16_SamplingByCeiling ==
    call.fn = "adjust" =>
      /\ KeptIndices =
            IF call.sample_rate < 10
            THEN {i \in SourceIndices :
                    i % ((10 + call.sample_rate - 1) \div call.sample_rate) = 0}
            ELSE SourceIndices
      /\ InSourceOrder
      /\ 0 \in KeptIndices

\* C16 as amended: with 0 < sample_rate < 1 the frames kept are exactly
\* those whose index i has i mod floor(1/sample_rate) = 0, in their order
\* (so every frame is kept for sample_rate > 0.5, and sample_rate = 0.5 on
\* 10 frames keeps 0, 2, 4, 6, 8); with sample_rate = 1 all are kept;
\* frame 0 is always kept.
C16_SamplingByFloor ==
    call.fn = "adjust" =>
      /\ KeptIndices =
            IF call.sample_rate < 10
            THEN {i \in SourceIndices : i % (10 \div call.sample_rate) = 0}
            ELSE SourceIndices
      /\ InSourceOrder
      /\ 0 \in KeptIndices
      /\ Len(call.out.frames) = Cardinality(KeptIndices)
      /\ call.sample_rate > 5 => KeptIndices = SourceIndices
      /\ (call.sample_rate = 5 /\ Len(call.img.frames) = 10)
            => KeptIndices = {0, 2, 4, 6, 8}

\* C16 witness: a rate for which floor and ceiling differ, on an animation
\* long enough to show it: rate 0.3 on 10 frames keeps 0, 3, 6, 9
C16_Witness ==
    /\ call.fn = "adjust"
    /\ call.sample_rate = 3
    /\ Len(call.img.frames) = 10
    /\ KeptIndices = {0, 3, 6, 9}

\* C17: with non-negative margins, when W - left - right > 0 and
\* H - top - bottom > 0 every frame of the result measures
\* (W - left - right) x (H - top - bottom) and there are as many frames as
\* before (10,10,10,10 on 100x100 gives 80x80); otherwise the result is the
\* input file byte for byte, and no error is raised.
C17_CropContract ==
    call.fn = "crop" =>
      LET W == call.img.size[1]
          H == call.img.size[2]
          nw == W - call.crop_pixels[1] - call.crop_pixels[3]
          nh == H - call.crop_pixels[2] - call.crop_pixels[4]
      IN  IF nw > 0 /\ nh > 0
          THEN /\ Len(call.out.frames) = Len(call.img.frames)
               /\ \A i \in DOMAIN call.out.frames :
                     /\ call.out.frames[i].size = <<nw, nh>>
                     /\ call.out.frames[i].index = call.img.frames[i].index
               /\ (call.img.size = <<100, 100>>
                     /\ call.crop_pixels = <<10, 10, 10, 10>>)
                    => call.out.size = <<80, 80>>
          ELSE call.out = call.img

\* C17 witness: 10,10,10,10 on 100x100 with several frames gave 80x80
C17_Witness ==
    /\ call.fn = "crop"
    /\ call.img.size = <<100, 100>>
    /\ call.crop_pixels = <<10, 10, 10, 10>>
    /\ Len(call.out.frames) = MaxFrames
    /\ call.out.frames[MaxFrames].size = <<80, 80>>
    /\ call.out.bytes = "saved"

\* the temporary files the run has created and not deleted
LiveTemps ==
    (IF temp_cropped # NoFile THEN 1 ELSE 0)
      + (IF temp_sampled # NoFile THEN 1 ELSE 0)
      + (IF temp_output # NoFile THEN 1 ELSE 0)
      + Cardinality(best_files)

AttemptCompleted == attempts >= 1 /\ result = "none"

\* C21: when some attempt of the run produced an output of size <= target,
\* the output file of the run is the output of the first such attempt
\* (stated for the runs in which no measured size was that of an empty
\* file, i.e. whose first encoder call did not fail).
C21_GreedyResult ==
    (Returned /\ first_fit # 0 /\ min_seen > 0) =>
        /\ output_file.src = "encode"
        /\ output_file.n = first_fit

\* C22: at every moment at most one held-best file exists, it is the one
\* best_output names, and every best file created before it is deleted.
C22_ReleaseBeforeRetain ==
    /\ Cardinality(best_files) <= 1
    /\ \A f \in best_files : f.name = best_output
    /\ (best_output # 0 /\ pc # "done") => best_files # {}

\* C22 witness: the held best was replaced, so that a best file created
\* earlier had to be deleted
C22_Witness ==
    /\ Searching
    /\ accepts >= 2
    /\ Cardinality(best_files) = 1
    /\ \E f \in best_files : f.name = attempts

\* C23 as claimed: after any attempt completes no more than two temporary
\* files of the run are alive, preprocessing enabled or not.
C23_TwoAlive == AttemptCompleted => LiveTemps <= 2

\* C23 as amended: after any attempt completes the temporary files alive
\* are temp_output, at most one held best, and, when a crop or a frame
\* adjustment ran, the one preprocessed input that the attempts read: at
\* most two without preprocessing, at most three with it.
C23_TwoAliveBesidesInput ==
    AttemptCompleted =>
        /\ LiveTemps <= 2 + (IF pre_log # <<>> THEN 1 ELSE 0)
        /\ Cardinality(best_files) <= 1
        /\ (temp_cropped # NoFile) <=> processed_input = "cropped"
        /\ (temp_sampled # NoFile) <=> processed_input = "sampled"
        /\ pre_log = <<>> => (temp_cropped = NoFile /\ temp_sampled = NoFile)

\* C23 witness: after crop and frame adjustment, an attempt completed with
\* the adjusted input, the attempt output and a held best alive
C23_Witness ==
    /\ AttemptCompleted
    /\ Len(pre_log) = 2
    /\ best_files # {}
    /\ LiveTemps = 3

\* C24: when a run that entered the search returns, every temporary file
\* it created is deleted and the file at the output path exists.
C24_CleanupAtCompletion ==
    Returned =>
        /\ NoTempAlive
        /\ LiveTemps = 0
        /\ output_file # NoFile
        /\ temps_made >= 1

\* C24 witness: a run that created a cropped input, an adjusted input, the
\* attempt output and two best files returned with none of them left
C24_Witness ==
    /\ Returned
    /\ Len(pre_log) = 2
    /\ accepts = 2
    /\ temps_made = 5
    /\ NoTempAlive

\* C25: whenever a call has ended, by a return or by an exception, no
\* temporary file it created is alive.
C25_NoAccumulation == pc = "done" => LiveTemps = 0

\* C26: when a run that entered the search returns without any candidate
\* having improved on the original size, its output file is the product of
\* an encode attempt of the run, namely of the last one.
C26_LastAttemptFallback ==
    (Returned /\ best_output = 0) =>
        /\ output_file.src = "encode"
        /\ last.ok => output_file = EncodedBytes(attempts, last.size)

\* the attempts a search can make when nothing stops it, as the claim
\* counts them
AttemptBound ==
    LET colorLevels == ColorValues(args.min_colors)
        scaleLevels == ScaleValues(args.min_scale)
        firstPassScales == IF args.force_scaling THEN scaleLevels ELSE <<100>>
    IN  Len(firstPassScales) * 7 * Len(colorLevels)
          + (IF args.force_scaling THEN 0
             ELSE (Len(scaleLevels) - 1) * 3 * Len(colorLevels))

\* the same count over the documented range of min_colors and min_scale
BoundOfLists ==
    \A mc \in 2..256 : \A ms \in 1..100 :
        LET c == Len(ColorValues(mc))
            n == Len(ScaleValues(ms))
        IN  /\ n * 7 * c <= 294
            /\ 7 * c + (n - 1) * 3 * c <= 150

\* C27: every run, also one whose budget exceeds the parameter space and
\* whose target is never met, eventually ends, and its attempts never
\* exceed |firstPassScales| * 7 * |colorLevels| plus, without
\* force_scaling, (|scaleLevels| - 1) * 3 * |colorLevels|, which is at most
\* 294 with force_scaling and at most 150 without.
C27_BoundedSearch ==
    /\ [](BoundOfLists /\ attempts <= AttemptBound)
    /\ <>(pc = "done")

\* C27 witness: a forced search with budget to spare went through its whole
\* parameter space without meeting the target, and ended
C27_Witness ==
    /\ pc = "done" /\ result = "returned"
    /\ args.force_scaling
    /\ best_size > args.target_size_bytes
    /\ attempts = AttemptBound
    /\ attempts < args.max_attempts

\* the last combination of the search: the last scale of the last pass, the
\* last lossy level, the last color count
LastCombination ==
    LET colorLevels == ColorValues(args.min_colors)
        scaleLevels == ScaleValues(args.min_scale)
        second == ~args.force_scaling /\ Len(scaleLevels) > 1
    IN  /\ last.pass = IF second THEN 2 ELSE 1
        /\ last.scale = IF second \/ args.force_scaling
                        THEN scaleLevels[Len(scaleLevels)] ELSE 100
        /\ last.lossy = 200
        /\ last.colors = colorLevels[Len(colorLevels)]

\* C28 as claimed: a run that returns with best_size > target has made
\* exactly max_attempts attempts, or has attempted every combination of the
\* first pass and, without force_scaling, of the second.
C28_Completeness ==
    (Returned /\ best_size > args.target_size_bytes) =>
        \/ attempts = args.max_attempts
        \/ attempts = AttemptBound /\ LastCombination

\* C28 as amended: a run that returns with best_size > target has used up
\* its budget, i.e. attempts >= max_attempts, with attempts = max_attempts
\* when max_attempts >= 0 and no attempt at all when it is negative, or has
\* attempted every combination of the first pass and, without
\* force_scaling, of the second.
C28_CompletenessWithinBudget ==
    (Returned /\ best_size > args.target_size_bytes) =>
        \/ /\ attempts >= args.max_attempts
           /\ attempts = IF args.max_attempts >= 0
                         THEN args.max_attempts ELSE 0
        \/ attempts = AttemptBound /\ LastCombination

\* C28 witness: with budget left, a search without force_scaling returned
\* over target after the last combination of the second pass
C28_Witness ==
    /\ Returned
    /\ best_size > args.target_size_bytes
    /\ ~args.force_scaling
    /\ attempts < args.max_attempts
    /\ last.pass = 2
    /\ attempts = AttemptBound

====
